---- MODULE Spec2Model ----
(***************************************************************************)
(* A model of the crate `tid` (src/src/lib.rs): the block-timing macro     *)
(* `timed!` and the multi-mark `Timer`, both reading one monotonic         *)
(* nanosecond clock and printing lines to standard output.                 *)
(*                                                                         *)
(* Clock readings are u64 and are held as wide decimal numbers, since the  *)
(* conversion to f64 loses precision only above 2^53.  Text is modelled as *)
(* sequences of one-character strings, so that padding and digits can be   *)
(* inspected position by position.                                         *)
(***************************************************************************)
EXTENDS Integers, Sequences, FiniteSets, TLC

VARIABLES
    clock,      \* the current reading of time::precise_time_ns()
    timer,      \* the Timer binding: "none", "open" (live) or "presented" (moved)
    times,      \* Timer.times
    strs,       \* Timer.strs
    pc,         \* position inside one expansion of timed!
    name,       \* $name of the expansion
    nstmts,     \* how many statements $block holds (at least one)
    ran,        \* how many of them have completed
    t0,         \* the local t0 of the expansion
    t1,         \* the local t1 of the expansion
    raised,     \* what the caller has seen raised, "none" if nothing
    out,        \* standard output: the lines printed so far
    tlog,       \* history: the Timer operations performed, with what they read
    mlog        \* history: the steps of the timed! expansion performed

vars == <<clock, timer, times, strs, pc, name, nstmts, ran, t0, t1, raised,
          out, tlog, mlog>>

timerVars == <<timer, times, strs, tlog>>
macroVars == <<pc, name, nstmts, ran, t0, t1, mlog>>

(***************************************************************************)
(* Bounds of the model.                                                    *)
(***************************************************************************)
MaxMarks == 3        \* marks of a Timer used alone
MaxJointMarks == 2   \* marks of a Timer used beside a timed! block
MaxStmts == 2        \* statements in the block of timed!

(***************************************************************************)
(* Program constants.                                                      *)
(***************************************************************************)
LabelWidth == 26     \* {:<26}
NumWidth == 9        \* {:9.4}
NumPrecision == 4    \* {:9.4}
FiveToSix == 15625   \* 1_000_000.0 = 2^6 * 5^6
TwoToSix == 6
MantissaBits == 53   \* f64
WordBits == 64       \* u64

\* 10^k.
Pow10(k) == 10 ^ k

(***************************************************************************)
(* u64 values.  A value is held as its decimal digits in groups of four,   *)
(* least significant group first, without leading zero groups: 1,234,567   *)
(* is <<4567, 123>> and zero is <<>>.                                      *)
(***************************************************************************)
GroupDigits == 4
Base == Pow10(GroupDigits)

RECURSIVE Wide(_)
Wide(n) == IF n = 0 THEN <<>> ELSE <<n % Base>> \o Wide(n \div Base)

RECURSIVE Trim(_)
Trim(a) == IF a # <<>> /\ a[Len(a)] = 0 THEN Trim(SubSeq(a, 1, Len(a) - 1)) ELSE a

\* -1, 0 or 1 as a is below, equal to or above b.
RECURSIVE CmpFrom(_, _, _)
CmpFrom(a, b, i) ==
    IF i = 0 THEN 0
    ELSE IF a[i] < b[i] THEN -1
    ELSE IF a[i] > b[i] THEN 1
    ELSE CmpFrom(a, b, i - 1)

Cmp(a, b) ==
    IF Len(a) < Len(b) THEN -1
    ELSE IF Len(a) > Len(b) THEN 1
    ELSE CmpFrom(a, b, Len(a))

Less(a, b) == Cmp(a, b) = -1
AtMost(a, b) == Cmp(a, b) # 1

Limb(a, i) == IF i <= Len(a) THEN a[i] ELSE 0

RECURSIVE PlusFrom(_, _, _, _)
PlusFrom(a, b, i, carry) ==
    IF i > Len(a) /\ i > Len(b)
    THEN (IF carry = 0 THEN <<>> ELSE <<carry>>)
    ELSE LET s == Limb(a, i) + Limb(b, i) + carry
         IN  <<s % Base>> \o PlusFrom(a, b, i + 1, s \div Base)

Plus(a, b) == PlusFrom(a, b, 1, 0)

\* a - b for a >= b.
RECURSIVE MinusFrom(_, _, _, _)
MinusFrom(a, b, i, borrow) ==
    IF i > Len(a) THEN <<>>
    ELSE LET s == a[i] - Limb(b, i) - borrow
         IN  IF s < 0 THEN <<s + Base>> \o MinusFrom(a, b, i + 1, 1)
             ELSE <<s>> \o MinusFrom(a, b, i + 1, 0)

Minus(a, b) == Trim(MinusFrom(a, b, 1, 0))

\* a * c for a small c.
RECURSIVE TimesFrom(_, _, _, _)
TimesFrom(a, c, i, carry) ==
    IF i > Len(a) THEN Wide(carry)
    ELSE LET s == a[i] * c + carry
         IN  <<s % Base>> \o TimesFrom(a, c, i + 1, s \div Base)

Times(a, c) == Trim(TimesFrom(a, c, 1, 0))

\* Quotient and remainder of a by a small c.
\* Long division from group i down, r being the remainder carried in: the
\* final remainder followed by the quotient's groups.
RECURSIVE DivFrom(_, _, _, _)
DivFrom(a, c, i, r) ==
    IF i = 0 THEN <<r>>
    ELSE IF r * Base + a[i] < c
         THEN Append(DivFrom(a, c, i - 1, r * Base + a[i]), 0)
         ELSE Append(DivFrom(a, c, i - 1, (r * Base + a[i]) % c),
                     (r * Base + a[i]) \div c)

DivMod(a, c) ==
    LET d == DivFrom(a, c, Len(a), 0) IN [q |-> Trim(Tail(d)), r |-> d[1]]

IsOdd(a) == a # <<>> /\ a[1] % 2 = 1

\* 2^k as a machine integer (k < 31) and as a wide value.
SmallPow2(k) == 2 ^ k

\* The most bits handled in one step of a shift.
Chunk == 15

RECURSIVE Pow2(_)
Pow2(k) == IF k <= Chunk THEN Wide(SmallPow2(k))
           ELSE Times(Pow2(k - Chunk), SmallPow2(Chunk))

PowersOfTwo == [k \in 0..(WordBits + Chunk) |-> Pow2(k)]

\* The number of bits of a: 0 for zero, else the L with 2^(L-1) <= a < 2^L.
BitLen(a) ==
    Cardinality({k \in DOMAIN PowersOfTwo : AtMost(PowersOfTwo[k], a)})

\* a * 2^k.
RECURSIVE ShiftLeft(_, _)
ShiftLeft(a, k) ==
    IF a = <<>> THEN a
    ELSE IF k <= Chunk THEN Times(a, SmallPow2(k))
    ELSE ShiftLeft(Times(a, SmallPow2(Chunk)), k - Chunk)

(***************************************************************************)
(* Inputs.                                                                 *)
(***************************************************************************)
Alphabet ==
    <<"a","b","c","d","e","f","g","h","i","j","k","l","m",
      "n","o","p","q","r","s","t","u","v","w","x","y","z">>

\* Labels shorter than, exactly as long as, and longer than the label field.
Labels == { <<"h","e","i">>, Alphabet, Alphabet \o <<"!">> }

\* Clock readings (nanoseconds) when a Timer and a timed! block run together.
CoarseValues == { Wide(n) : n \in {0, 31250} }

\* Clock readings when a Timer runs alone.
TimerValues ==
    { Wide(n) : n \in {0, 31250, 100000000, 250000000, 300000000} }

\* Clock readings when a timed! block runs alone: elapsed times on both sides
\* of the rounding boundaries of the printed value, exact ties included, and
\* elapsed times around and beyond 2^53 ns (104 days), where f64 stops
\* holding every nanosecond count.
FineValues ==
    { Wide(n) : n \in {0, 1, 49, 50, 51, 100, 149, 150, 151, 250, 350, 9999,
                       31250, 93750, 156250, 999949, 999950, 1000000,
                       1234567, 100000000, 123456789} }
    \cup { <<950, 5474, 1992, 9007>>,     \* 2^53 - 42
           <<0, 0, 0, 0, 10>>,            \* 10^17
           <<51, 0, 0, 0, 10>> }          \* 10^17 + 51

\* What the wrapped statements can raise: a panic, or an early exit from the
\* enclosing function (return, ?, break), since they are spliced inline.
Failures == {"panic", "early_exit"}

(***************************************************************************)
(* Text helpers.                                                           *)
(***************************************************************************)
Spaces(n) == [i \in 1..n |-> " "]

DigitChar(k) == <<"0","1","2","3","4","5","6","7","8","9">>[k + 1]

\* The decimal digits of a machine integer, most significant first.
RECURSIVE Digits(_)
Digits(n) == IF n < 10 THEN <<DigitChar(n)>>
             ELSE Append(Digits(n \div 10), DigitChar(n % 10))

\* The last k decimal digits of n, with leading zeros.
RECURSIVE FixedDigits(_, _)
FixedDigits(n, k) == IF k = 0 THEN <<>>
                     ELSE Append(FixedDigits(n \div 10, k - 1), DigitChar(n % 10))

\* The decimal digits of a wide value.
RECURSIVE LowerGroups(_, _)
LowerGroups(a, i) ==
    IF i = 0 THEN <<>>
    ELSE FixedDigits(a[i], GroupDigits) \o LowerGroups(a, i - 1)

WideDigits(a) ==
    IF a = <<>> THEN <<"0">>
    ELSE Digits(a[Len(a)]) \o LowerGroups(a, Len(a) - 1)

(***************************************************************************)
(* `{:<26}` applied to a label: a string at least as wide as the field is  *)
(* written as it is, a shorter one is followed by the missing fill         *)
(* characters (left alignment puts all the padding after the text).        *)
(***************************************************************************)
\* Mutant: `{:<26.26}`, which also cuts a longer label to the field.
PadLabel_Cut(s) ==
    IF Len(s) >= LabelWidth THEN SubSeq(s, 1, LabelWidth)
    ELSE s \o Spaces(LabelWidth - Len(s))

PadLabel(s) ==
    IF Len(s) >= LabelWidth THEN s
    ELSE s \o Spaces(LabelWidth - Len(s))

(***************************************************************************)
(* `ns as f64`: the nearest value with a 53-bit mantissa, a tie going to   *)
(* the even mantissa.  The result is [m, e], standing for m * 2^e.         *)
(***************************************************************************)

\* 2^53: every integer below it is an f64.
MantissaEnd == PowersOfTwo[MantissaBits]

\* How many of the low bits of a do not fit the mantissa.
ExcessBits(a) ==
    IF BitLen(a) > MantissaBits THEN BitLen(a) - MantissaBits ELSE 0

ToF64(a) ==
    LET s == ExcessBits(a)
        d == DivMod(a, SmallPow2(s))
        up == \/ 2 * d.r > SmallPow2(s)
              \/ (s > 0 /\ 2 * d.r = SmallPow2(s) /\ IsOdd(d.q))
    IN  [m |-> IF up THEN Plus(d.q, Wide(1)) ELSE d.q, e |-> s]

(***************************************************************************)
(* `/ 1_000_000.0` on f64.  1_000_000 = 2^6 * 5^6: the quotient's mantissa *)
(* is m * 2^k / 5^6 rounded to nearest, with k placing it in               *)
(* [2^52, 2^53).  5^6 being odd, no tie arises.                            *)
(***************************************************************************)

MinScaled == Times(Pow2(MantissaBits - 1), FiveToSix)

\* a * 2^k for the k that brings a into [MinScaled, 2 * MinScaled): shifted
\* to the bit length of MinScaled, a is in range or half of a value in range.
ScaleUp(a) ==
    LET k    == BitLen(MinScaled) - BitLen(a)
        near == ShiftLeft(a, k)
    IN  IF Less(near, MinScaled) THEN [a |-> Times(near, 2), k |-> k + 1]
        ELSE [a |-> near, k |-> k]

DivMillion(f) ==
    IF f.m = <<>> THEN f
    ELSE LET sc == ScaleUp(f.m)
             d  == DivMod(sc.a, FiveToSix)
         IN  [m |-> IF 2 * d.r > FiveToSix THEN Plus(d.q, Wide(1)) ELSE d.q,
              e |-> f.e - TwoToSix - sc.k]

(***************************************************************************)
(* `{:.4}` of an f64 m * 2^e: the exact value rounded to 4 fractional      *)
(* digits, to nearest, an exact tie to the even digit.  The result is the  *)
(* printed number in units of 10^-4.                                       *)
(***************************************************************************)
\* a / 2^t rounded to nearest-even; guard is the last bit shifted out and
\* sticky tells whether any bit shifted out before it was set.
RECURSIVE HalveRound(_, _, _, _)
HalveRound(a, t, guard, sticky) ==
    IF t = 0
    THEN (IF guard = 1 /\ (sticky \/ IsOdd(a)) THEN Plus(a, Wide(1)) ELSE a)
    ELSE IF a = <<>> THEN a
    ELSE LET c == IF t > Chunk THEN Chunk ELSE t
             d == DivMod(a, SmallPow2(c))
             g == d.r \div SmallPow2(c - 1)
             rest == d.r % SmallPow2(c - 1)
         IN  HalveRound(d.q, t - c, g, sticky \/ guard = 1 \/ rest # 0)

FixedUnits(f, digits) ==
    LET scaled == Times(f.m, Pow10(digits))
    IN  IF f.e >= 0 THEN ShiftLeft(scaled, f.e)
        ELSE HalveRound(scaled, -f.e, 0, FALSE)


\* Mutant: the digits beyond the fourth are cut off, not rounded.
MillisUnits_Truncating(ns) == DivMod(ns, 100).q

\* Mutant: the division is by 1_000.0, giving microseconds.
MillisUnits_Micros(ns) == Times(ns, 10)

\* `{:.4}` of `ns as f64 / 1_000_000.0`, in units of 10^-4 ms.
MillisUnits(ns) ==
    IF ns = <<>> THEN ns
    ELSE FixedUnits(DivMillion(ToF64(ns)), NumPrecision)

\* The digits `{:.4}` writes: integer part, point, exactly 4 fractional digits.
FixedPoint(units) ==
    LET d == DivMod(units, Pow10(NumPrecision))
    IN  WideDigits(d.q) \o <<".">> \o FixedDigits(d.r, NumPrecision)

\* `{:9.4}`: numbers are right-aligned in the minimum width, never cut.
PadNum(s) ==
    IF Len(s) >= NumWidth THEN s
    ELSE Spaces(NumWidth - Len(s)) \o s

\* `{:9.4}` applied to `ns as f64 / 1_000_000.0`.
FormatMillis(ns) ==
    LET units == MillisUnits(ns)
    IN  IF units = <<>> THEN PadNum(FixedPoint(<<>>))
        ELSE PadNum(FixedPoint(units))

(***************************************************************************)
(* `b - a` on u64.  With b < a the subtraction overflows: a build with     *)
(* overflow checks (debug) panics, one without (release) wraps modulo      *)
(* 2^64.                                                                   *)
(***************************************************************************)
WordEnd == Pow2(WordBits)

Overflows(b, a) == Less(b, a)

SubU64(b, a) ==
    IF Overflows(b, a) THEN Minus(Plus(b, WordEnd), a) ELSE Minus(b, a)

\* The builds whose outcome differs, given whether some subtraction overflows.
Builds(overflow) == IF overflow THEN {"checked", "wrapping"} ELSE {"any"}

\* The `[timed]` line of timed!; ns is the difference handed to the format.
TimedLine(label, ns) ==
    [tag   |-> "[timed]",
     label |-> PadLabel(label),
     ns    |-> ns,
     num   |-> FormatMillis(ns),
     unit  |-> "ms"]

\* One `\t[timer]` line of Timer::present.
TimerLine(label, ns) ==
    [tag   |-> "\t[timer]",
     label |-> PadLabel(label),
     ns    |-> ns,
     num   |-> FormatMillis(ns),
     unit  |-> "ms"]

(***************************************************************************)
(* The clock.  time::precise_time_ns() reads a monotonic clock: between    *)
(* two reads it stays or advances, never goes back.                        *)
(***************************************************************************)
\* Mutant: a clock that can be set back (a wall clock).
Tick_Backwards(V) ==
    /\ \E c \in V : c # clock /\ clock' = c
    /\ UNCHANGED <<timerVars, macroVars, raised, out>>

Tick(V) ==
    /\ \E c \in V : Less(clock, c) /\ clock' = c
    /\ UNCHANGED <<timerVars, macroVars, raised, out>>

(***************************************************************************)
(* Timer.  tlog records each operation with the clock values it read and,  *)
(* as `at`, the clock when it ran.                                         *)
(***************************************************************************)
TimerEvent(op, label, read) ==
    [op |-> op, label |-> label, read |-> read, at |-> clock]

\* Timer::new(): the first time sample is taken here.
New ==
    /\ timer = "none"
    /\ timer' = "open"
    /\ times' = <<clock>>
    /\ strs' = <<>>
    /\ tlog' = Append(tlog, TimerEvent("new", <<>>, <<clock>>))
    /\ UNCHANGED <<clock, macroVars, raised, out>>

\* Mutant: the label is not stored.
Mark_NoLabel(label) ==
    /\ timer = "open"
    /\ times' = Append(times, clock)
    /\ tlog' = Append(tlog, TimerEvent("mark", label, <<clock>>))
    /\ UNCHANGED <<clock, timer, strs, macroVars, raised, out>>

\* Timer::mark(&mut self, label): needs a live Timer.
Mark(label) ==
    /\ timer = "open"
    /\ times' = Append(times, clock)
    /\ strs' = Append(strs, label)
    /\ tlog' = Append(tlog, TimerEvent("mark", label, <<clock>>))
    /\ UNCHANGED <<clock, timer, macroVars, raised, out>>

\* Mutant: each difference is taken from the first sample.
Diffs_FromStart(ts) == [i \in 1..(Len(ts) - 1) |-> SubU64(ts[i + 1], ts[1])]

\* times.iter().zip(times.iter().skip(1)).map(|(a, b)| b - a)
Diffs(ts) == [i \in 1..(Len(ts) - 1) |-> SubU64(ts[i + 1], ts[i])]

\* diffs.zip(strs.iter()): as many pairs as the shorter of the two holds.
ZipLen(ds, ss) == IF Len(ds) <= Len(ss) THEN Len(ds) ELSE Len(ss)

\* The first of the n pairs whose subtraction overflows, n + 1 if none does.
FirstOverflow(ts, n) ==
    LET bad == { i \in 1..n : Overflows(ts[i + 1], ts[i]) }
    IN  IF bad = {} THEN n + 1
        ELSE CHOOSE i \in bad : \A j \in bad : i <= j

\* The for loop: one line per (time, s) pair, in order.  The differences are
\* computed as the loop pulls them, so a checked build prints the lines
\* before the first overflow and then panics.
PresentLines(ts, ss, build) ==
    LET n == ZipLen(Diffs(ts), ss)
        m == IF build = "checked" THEN FirstOverflow(ts, n) - 1 ELSE n
    IN  [i \in 1..m |-> TimerLine(ss[i], Diffs(ts)[i])]

PresentBuilds(ts, ss) ==
    Builds(FirstOverflow(ts, ZipLen(Diffs(ts), ss)) <= ZipLen(Diffs(ts), ss))

\* Mutant: present(&self) borrows the Timer and leaves it live.
Present_ByRef ==
    /\ timer = "open"
    /\ \E build \in PresentBuilds(times, strs) :
         /\ out' = out \o PresentLines(times, strs, build)
         /\ raised' = IF build = "checked" THEN "overflow" ELSE raised
    /\ tlog' = Append(tlog, TimerEvent("present", <<>>, <<>>))
    /\ UNCHANGED <<clock, timer, times, strs, macroVars>>

\* Mutant: present takes a closing time sample of its own.
Present_Sampling ==
    /\ timer = "open"
    /\ \E build \in PresentBuilds(Append(times, clock), strs) :
         /\ out' = out \o PresentLines(Append(times, clock), strs, build)
         /\ raised' = IF build = "checked" THEN "overflow" ELSE raised
    /\ timer' = "presented"
    /\ times' = <<>>
    /\ strs' = <<>>
    /\ tlog' = Append(tlog, TimerEvent("present", <<>>, <<clock>>))
    /\ UNCHANGED <<clock, macroVars>>

\* Timer::present(self): prints one line per pair and consumes the Timer,
\* whose vectors are dropped.
Present ==
    /\ timer = "open"
    /\ \E build \in PresentBuilds(times, strs) :
         /\ out' = out \o PresentLines(times, strs, build)
         /\ raised' = IF build = "checked" THEN "overflow" ELSE raised
    /\ timer' = "presented"
    /\ times' = <<>>
    /\ strs' = <<>>
    /\ tlog' = Append(tlog, TimerEvent("present", <<>>, <<>>))
    /\ UNCHANGED <<clock, macroVars>>

(***************************************************************************)
(* One expansion of timed!($name, $($block);+;).  mlog records its steps.  *)
(***************************************************************************)
\* let t0 = $crate::_time();
TimedBegin(label, n) ==
    /\ pc = "idle"
    /\ name' = label
    /\ nstmts' = n
    /\ t0' = clock
    /\ pc' = "block"
    /\ mlog' = Append(mlog, [step |-> "t0", v |-> clock])
    /\ UNCHANGED <<clock, timerVars, ran, t1, raised, out>>

\* Mutant: only the first statement of the block is expanded.
StmtOk_FirstOnly ==
    /\ pc = "block"
    /\ ran < nstmts
    /\ ran' = ran + 1
    /\ pc' = "after"
    /\ mlog' = Append(mlog, [step |-> "stmt", v |-> ran + 1])
    /\ UNCHANGED <<clock, timerVars, name, nstmts, t0, t1, raised, out>>

\* $($block);+; one statement of the block runs to completion.
StmtOk ==
    /\ pc = "block"
    /\ ran < nstmts
    /\ ran' = ran + 1
    /\ pc' = IF ran + 1 = nstmts THEN "after" ELSE "block"
    /\ mlog' = Append(mlog, [step |-> "stmt", v |-> ran + 1])
    /\ UNCHANGED <<clock, timerVars, name, nstmts, t0, t1, raised, out>>

\* Mutant: the line is printed by a guard that also runs when the block fails.
StmtFail_Guarded(f) ==
    /\ pc = "block"
    /\ ran < nstmts
    /\ raised' = f
    /\ pc' = "failed"
    /\ out' = Append(out, TimedLine(name, SubU64(clock, t0)))
    /\ mlog' = Append(mlog, [step |-> "fail", v |-> f])
    /\ UNCHANGED <<clock, timerVars, name, nstmts, ran, t0, t1>>

\* One statement of the block fails: control leaves the expansion, which
\* holds no handler, and the caller sees what was raised.
StmtFail(f) ==
    /\ pc = "block"
    /\ ran < nstmts
    /\ raised' = f
    /\ pc' = "failed"
    /\ mlog' = Append(mlog, [step |-> "fail", v |-> f])
    /\ UNCHANGED <<clock, timerVars, name, nstmts, ran, t0, t1, out>>

\* let t1 = $crate::_time();
TimedEnd ==
    /\ pc = "after"
    /\ t1' = clock
    /\ pc' = "print"
    /\ mlog' = Append(mlog, [step |-> "t1", v |-> clock])
    /\ UNCHANGED <<clock, timerVars, name, nstmts, ran, t0, raised, out>>

\* println!("[timed] {:<26} {:9.4}ms", $name, (t1 - t0) as f64 / 1_000_000.0);
\* In a checked build an overflowing t1 - t0 panics before anything is printed.
TimedPrint ==
    /\ pc = "print"
    /\ \E build \in Builds(Overflows(t1, t0)) :
         IF build = "checked"
         THEN /\ out' = out
              /\ pc' = "failed"
              /\ raised' = "overflow"
              /\ mlog' = Append(mlog, [step |-> "fail", v |-> "overflow"])
         ELSE /\ out' = Append(out, TimedLine(name, SubU64(t1, t0)))
              /\ pc' = "done"
              /\ raised' = raised
              /\ mlog' = Append(mlog, [step |-> "print", v |-> SubU64(t1, t0)])
    /\ UNCHANGED <<clock, timerVars, name, nstmts, ran, t0, t1>>

(***************************************************************************)
(* Specifications.                                                         *)
(***************************************************************************)
Init(V) ==
    /\ clock \in V
    /\ timer = "none"
    /\ times = <<>>
    /\ strs = <<>>
    /\ pc = "idle"
    /\ name = <<>>
    /\ nstmts = 0
    /\ ran = 0
    /\ t0 = <<>>
    /\ t1 = <<>>
    /\ raised = "none"
    /\ out = <<>>
    /\ tlog = <<>>
    /\ mlog = <<>>

\* A Timer and one timed! block, in any interleaving.
Next ==
    \/ Tick(CoarseValues)
    \/ New
    \/ \E label \in Labels : Len(strs) < MaxJointMarks /\ Mark(label)
    \/ Present
    \/ \E label \in Labels, n \in 1..MaxStmts : TimedBegin(label, n)
    \/ StmtOk
    \/ \E f \in Failures : StmtFail(f)
    \/ TimedEnd
    \/ TimedPrint

\* A Timer alone.
NextTimer ==
    \/ Tick(TimerValues)
    \/ New
    \/ \E label \in Labels : Len(strs) < MaxMarks /\ Mark(label)
    \/ Present

\* One timed! block alone.
NextTimed ==
    \/ Tick(FineValues)
    \/ \E label \in Labels, n \in 1..MaxStmts : TimedBegin(label, n)
    \/ StmtOk
    \/ \E f \in Failures : StmtFail(f)
    \/ TimedEnd
    \/ TimedPrint

Spec == Init(CoarseValues) /\ [][Next]_vars

SpecTimer == Init(TimerValues) /\ [][NextTimer]_vars

SpecTimed == Init(FineValues) /\ [][NextTimed]_vars

(***************************************************************************)
(* Reading the histories and the output back.                              *)
(***************************************************************************)
\* The mark operations performed, in call order.
Marks == SelectSeq(tlog, LAMBDA e : e.op = "mark")

\* Every clock value the Timer operations read, in read order.
RECURSIVE ReadsOf(_)
ReadsOf(log) ==
    IF log = <<>> THEN <<>> ELSE Head(log).read \o ReadsOf(Tail(log))

TimerOut == SelectSeq(out, LAMBDA l : l.tag = "\t[timer]")
TimedOut == SelectSeq(out, LAMBDA l : l.tag = "[timed]")

RECURSIVE SumNs(_)
SumNs(lines) ==
    IF lines = <<>> THEN <<>> ELSE Plus(Head(lines).ns, SumNs(Tail(lines)))

\* |a - b|.
AbsDiff(a, b) == IF Less(a, b) THEN Minus(b, a) ELSE Minus(a, b)

IsDigit(c) == c \in {"0","1","2","3","4","5","6","7","8","9"}

DigitVal(c) ==
    CASE c = "0" -> 0 [] c = "1" -> 1 [] c = "2" -> 2 [] c = "3" -> 3
      [] c = "4" -> 4 [] c = "5" -> 5 [] c = "6" -> 6 [] c = "7" -> 7
      [] c = "8" -> 8 [] c = "9" -> 9

\* The number a printed field denotes, in units of its last digit: its digits
\* read as one decimal numeral, the point and the padding skipped.
PrintedUnits(num) ==
    LET ds == SelectSeq(num, IsDigit)
        n  == Len(ds)
        At(i) == IF i >= 1 THEN DigitVal(ds[i]) ELSE 0
        Group(j) == LET e == n - GroupDigits * (j - 1)
                    IN  At(e) + 10 * At(e - 1) + 100 * At(e - 2) + 1000 * At(e - 3)
    IN  Trim([j \in 1..((n + GroupDigits - 1) \div GroupDigits) |-> Group(j)])

\* A printed field of the shape <spaces><digits>.<k digits>.
HasFractionDigits(num, k) ==
    /\ Len(num) >= k + 2
    /\ num[Len(num) - k] = "."
    /\ \A i \in (Len(num) - k + 1)..Len(num) : IsDigit(num[i])
    /\ IsDigit(num[Len(num) - k - 1])
    /\ \A i \in 1..(Len(num) - k - 1) : IsDigit(num[i]) \/ num[i] = " "
    /\ \A i \in 1..(Len(num) - k - 2) : num[i] # " " => num[i + 1] # " "

\* The label field `field` shows `label` left-aligned in `width` columns.
LeftAligned(field, label, width) ==
    /\ Len(field) = (IF Len(label) > width THEN Len(label) ELSE width)
    /\ \A i \in 1..Len(label) : field[i] = label[i]
    /\ \A i \in (Len(label) + 1)..Len(field) : field[i] = " "
    /\ Len(label) < width => Len(field) - Len(label) = width - Len(label)

\* How far, in ns, the printed number is from ns nanoseconds.
PrintedError(num, ns) == AbsDiff(Times(PrintedUnits(num), 100), ns)

\* The printed number, in units of 0.0001 ms, is ns / 100 to the nearest unit.
NearestUnit(num, ns) == AtMost(PrintedError(num, ns), Wide(50))

\* The printed number is within 0.00005 ms, and 2^-52 of ns for the rounding
\* of f64, of ns nanoseconds: err <= 51 + ns / 2^52.
NearestF64Unit(num, ns) ==
    LET err == PrintedError(num, ns)
    IN  \/ AtMost(err, Wide(51))
        \/ /\ Len(err) = 1
           /\ AtMost(Times(PowersOfTwo[MantissaBits - 1], err[1] - 51), ns)

(***************************************************************************)
(* C1.  A Timer built at reading t[0] and marked n times, the marks        *)
(* reading t[1] .. t[n], prints at present exactly n lines (none before    *)
(* present, none when n = 0); line i carries the i-th label passed to mark *)
(* and the elapsed nanoseconds t[i] - t[i-1], in mark-call order.          *)
(***************************************************************************)
C1_PresentLines ==
    LET t == ReadsOf(tlog)
        n == Len(Marks)
    IN  /\ timer # "presented" => out = <<>>
        /\ timer = "presented" =>
             /\ Len(out) = n
             /\ Len(t) = n + 1
             /\ \A i \in 1..n :
                  /\ out[i].tag = "\t[timer]"
                  /\ SubSeq(out[i].label, 1, Len(Marks[i].label)) = Marks[i].label
                  /\ AtMost(t[i], t[i + 1])
                  /\ out[i].ns = Minus(t[i + 1], t[i])

\* The specification's example: marks at 0, 100, 250 and 300 ms.
C1_Witness ==
    /\ timer = "presented"
    /\ ReadsOf(tlog) =
         <<Wide(0), Wide(100000000), Wide(250000000), Wide(300000000)>>
    /\ Marks[1].label # Marks[2].label
    /\ Marks[2].label # Marks[3].label
    /\ Len(out) = 3
    /\ out[1].num = <<" ","1","0","0",".","0","0","0","0">>
    /\ out[2].num = <<" ","1","5","0",".","0","0","0","0">>
    /\ out[3].num = <<" "," ","5","0",".","0","0","0","0">>

(***************************************************************************)
(* C2.  While a Timer is live (after new and any number of marks) it holds *)
(* one more timestamp than labels, hence at least one timestamp.           *)
(***************************************************************************)
C2_LengthInvariant ==
    timer = "open" => /\ Len(strs) = Len(times) - 1
                      /\ Len(times) >= 1

C2_Witness ==
    /\ timer = "open"
    /\ Len(strs) = 2
    /\ Len(times) = 3

(***************************************************************************)
(* C3.  The Timer goes Open -> Presented and stays there: its operations   *)
(* are new, then marks, then at most one present, which is the last; mark  *)
(* and present can occur only while the Timer is Open.                     *)
(***************************************************************************)
C3_History ==
    /\ timer = "none" <=> tlog = <<>>
    /\ tlog # <<>> => tlog[1].op = "new"
    /\ \A i \in 2..Len(tlog) : tlog[i].op \in {"mark", "present"}
    /\ \A i \in 1..(Len(tlog) - 1) : tlog[i].op # "present"
    /\ timer = "presented" <=> (tlog # <<>> /\ tlog[Len(tlog)].op = "present")

\* A step in which mark or present is performed.
C3_MarkOrPresent ==
    /\ Len(tlog') = Len(tlog) + 1
    /\ tlog'[Len(tlog')].op \in {"mark", "present"}

C3_Lifecycle ==
    /\ []C3_History
    /\ [][C3_MarkOrPresent => timer = "open"]_vars
    /\ [][timer = "presented" => UNCHANGED <<timerVars, out>>]_vars

\* Presented after two marks, and the clock has moved on since.
C3_Witness ==
    /\ timer = "presented"
    /\ Len(Marks) = 2
    /\ Less(tlog[Len(tlog)].at, clock)

(***************************************************************************)
(* C4.  The clock never going back, the timestamps a Timer holds and has   *)
(* read are non-decreasing and t0 <= t1 in timed!, so no subtraction       *)
(* overflows: nothing panics on overflow and every printed line shows the  *)
(* true difference of its two readings, not a wrapped one.                 *)
(***************************************************************************)
C4_NoUnderflow ==
    LET t == ReadsOf(tlog)
    IN  /\ \A i \in 1..(Len(times) - 1) : AtMost(times[i], times[i + 1])
        /\ \A i \in 1..(Len(t) - 1) : AtMost(t[i], t[i + 1])
        /\ pc \in {"print", "done"} => AtMost(t0, t1)
        /\ raised # "overflow"
        /\ \A i \in 1..Len(TimerOut) : TimerOut[i].ns = Minus(t[i + 1], t[i])
        /\ \A i \in 1..Len(TimedOut) : TimedOut[i].ns = Minus(t1, t0)

\* Both constructs have printed, with zero and with positive differences.
C4_Witness ==
    /\ Len(TimerOut) = 2
    /\ TimerOut[1].ns # <<>>
    /\ TimerOut[2].ns = <<>>
    /\ Len(TimedOut) = 1
    /\ TimedOut[1].ns # <<>>

(***************************************************************************)
(* C5.  One use of timed! performs, in this order and each once: the read  *)
(* of t0, the statements of the block, the read of t1, the print of one    *)
(* [timed] line.  Nothing is printed before the second read.               *)
(***************************************************************************)
C5_Order ==
    /\ \A i \in 1..Len(mlog) :
         CASE i = 1 -> mlog[i].step = "t0" /\ mlog[i].v = t0
           [] i \in 2..(nstmts + 1) ->
                \/ (mlog[i].step = "stmt" /\ mlog[i].v = i - 1)
                \/ (mlog[i].step = "fail" /\ i = Len(mlog))
           [] i = nstmts + 2 -> mlog[i].step = "t1" /\ mlog[i].v = t1
           [] i = nstmts + 3 -> mlog[i].step = "print"
           [] OTHER -> FALSE
    /\ pc = "done" => /\ Len(mlog) = nstmts + 3
                      /\ Len(out) = 1
                      /\ out[1].tag = "[timed]"
                      /\ AtMost(t0, t1)
    /\ pc # "done" => out = <<>>

\* A block of two statements that took time, timed to the end.
C5_Witness ==
    /\ pc = "done"
    /\ nstmts = 2
    /\ Less(t0, t1)
    /\ Len(out) = 1

(***************************************************************************)
(* C6.  When the wrapped statements fail, the caller sees what they raised *)
(* and no [timed] line is ever printed: a line is printed only in runs in  *)
(* which every statement completed.                                        *)
(***************************************************************************)
C6_NoLineOnFailure ==
    /\ pc = "failed" =>
         /\ out = <<>>
         /\ raised \in Failures
         /\ mlog[Len(mlog)].step = "fail"
         /\ mlog[Len(mlog)].v = raised
         /\ \A i \in 1..Len(mlog) : mlog[i].step \notin {"t1", "print"}
    /\ raised # "none" => pc = "failed"
    /\ out # <<>> => (ran = nstmts /\ raised = "none")

\* The second statement panicked some time after the first completed.
C6_Witness ==
    /\ pc = "failed"
    /\ raised = "panic"
    /\ ran = 1
    /\ Less(t0, clock)

(***************************************************************************)
(* C7.  As claimed: for all readings t0 <= t1 the number timed! prints has *)
(* exactly 4 fractional digits and, in units of 0.0001 ms, is              *)
(* (t1 - t0) / 100 ns rounded to the nearest unit.                         *)
(***************************************************************************)
C7_AllReadings ==
    pc = "done" =>
        /\ HasFractionDigits(out[1].num, 4)
        /\ NearestUnit(out[1].num, Minus(t1, t0))

(***************************************************************************)
(* C7, amended.  The same for readings with t1 - t0 below 2^53 ns (about   *)
(* 104 days), the elapsed times f64 holds exactly; exact ties go to either *)
(* neighbour.  The field always has exactly 4 fractional digits.           *)
(***************************************************************************)
C7_Below2To53 ==
    pc = "done" =>
        /\ HasFractionDigits(out[1].num, 4)
        /\ Less(Minus(t1, t0), MantissaEnd) =>
             NearestUnit(out[1].num, Minus(t1, t0))

\* 2^53 - 42 ns, the last tie below 2^53, is printed as 9007199254.7409.
C7_Witness ==
    /\ pc = "done"
    /\ t0 = <<>>
    /\ t1 = <<950, 5474, 1992, 9007>>
    /\ out[1].num = <<"9","0","0","7","1","9","9","2","5","4",".","7","4","0","9">>

C10_NoClosingSample ==
    /\ timer # "none" => Len(ReadsOf(tlog)) = 1 + Len(Marks)
    /\ \A i \in 1..Len(tlog) : tlog[i].op = "present" => tlog[i].read = <<>>
    /\ (timer = "presented" /\ Len(Marks) >= 1) =>
         SumNs(out) = Minus(Marks[Len(Marks)].read[1], tlog[1].read[1])

\* Presented some time after the last of two marks.
C10_Witness ==
    /\ timer = "presented"
    /\ Len(Marks) = 2
    /\ Less(Marks[2].read[1], tlog[Len(tlog)].at)
    /\ SumNs(out) # <<>>
    /\ Less(SumNs(out), Minus(tlog[Len(tlog)].at, tlog[1].read[1]))

====
